---- MODULE Spec2Model ----
(***************************************************************************)
(* The userspace syscall layer of libtock-rs (src/src/syscalls.rs): the    *)
(* trap gateway functions, the yield loop, the callback trampoline and the *)
(* Subscription handle, run by one single-threaded process against a       *)
(* kernel that keeps one (callback, user-data) registration per            *)
(* (driver, subscribe number) descriptor and delivers queued callbacks     *)
(* only while the process sits in a yield trap.  The last part models the  *)
(* size report of tools/print-sizes/src/main.rs.                           *)
(***************************************************************************)
EXTENDS Integers, Sequences, FiniteSets, TLC

(* ------------------------------ bounds --------------------------------- *)
\* Subscription handles created over one run.
MaxHandles == 2
\* Distinct storage addresses a Handler can occupy (address 0 is null).
NumAddrs == 3
\* Yield traps that can be open at once (a Handler may itself yield).
MaxDepth == 2
\* False evaluations of cond() in one yieldk_for call.
MaxIter == 2
\* Width of the machine word and of a register (32 on the targets; narrowed).
WordBits == 8
\* Entries one examples directory holds (print-sizes).
MaxEntries == 2
\* Width of a size total (u64 in ElfSizes; narrowed).
AccBits == 6
\* The largest section of a binary of the 32-bit targets (narrowed).
MaxSize == 15

Handles == 1..MaxHandles
Addrs == 1..NumAddrs

(* ----------------------- application-supplied types -------------------- *)
\* The Handler types (the CB of Callback<A>) the application defines.
CBTypes == {"CBa", "CBb", "CBc"}

\* Callback::driver_number() of each Handler type.
driver_number(ty) == CASE ty = "CBa" -> 0 [] ty = "CBb" -> 1 [] OTHER -> 2

\* Callback::subscribe_number() of each Handler type.
subscribe_number(ty) == CASE ty = "CBa" -> 1 [] OTHER -> 0

DescOf(ty) == <<driver_number(ty), subscribe_number(ty)>>

\* ArgumentConverter::convert of these types makes cond() of the yield loop true.
SetterTypes == {"CBa"}

\* ArgumentConverter::convert of these types calls yieldk() itself.
YieldingTypes == {"CBb"}

\* The raw (arg0, arg1, arg2) tuples the kernel delivers.
RawArgs == {<<1, 2, 3>>, <<6, 5, 4>>}

VARIABLES
    reg,        \* kernel: descriptor -> registered callback, user-data (owner: ghost)
    pending,    \* kernel: the descriptors with a callback queued for the process
    handles,    \* the Subscription handles: state, Handler type, Handler address
    stack,      \* the process's open yield traps and running trampolines
    flag,       \* what cond() of the yield loop reads
    yf,         \* position and counters of the yieldk_for call
    traps,      \* the traps issued by the most recent operation, with results
    lastCall,   \* the most recent call of this layer and what it returned
    callArgs,   \* the arguments of the most recent direct gateway call
    cpu,        \* a register the caller holds a value in across a gateway call
    mem,        \* a buffer of the process as memory, the compiler and the kernel see it
    ps          \* print-sizes: where it is, the examples it found, the rows it printed

vars == <<reg, pending, handles, stack, flag, yf, traps, lastCall, callArgs, cpu, mem, ps>>

(* ------------------------------ the kernel ----------------------------- *)
\* Descriptors the kernel has a driver for; a trap on any other fails.
ValidDescs == {<<0, 1>>, <<1, 0>>}

\* Error codes the kernel returns for a failed trap.
NegResults == {-2, -1}

NoReg == [cb |-> "null", ud |-> 0, owner |-> 0]

WordMod == 2 ^ WordBits
MinIsize == 0 - 2 ^ (WordBits - 1)
MaxIsize == 2 ^ (WordBits - 1) - 1

\* Signed result words the kernel can produce for command, allow and memop.
Results == {MinIsize, -1, 0, 1, MaxIsize}

\* The bit pattern the kernel leaves in r0 for a signed result.
ToWord(k) == k % WordMod

\* "={r0}"(res) with res: isize: the register's bits read as a signed word.
AsIsize(w) == IF w >= 2 ^ (WordBits - 1) THEN w - WordMod ELSE w

(* --------------------------- the trap gateway --------------------------- *)
\* Each gateway function is the trap it issues: the operation code of its svc
\* instruction and the values its input constraints bind to r0..r3 (0 for a
\* register the function does not set).  by is a ghost: the handle on whose
\* behalf the trap is issued.
yieldk == [op |-> 0, r0 |-> 0, r1 |-> 0, r2 |-> 0, r3 |-> 0, by |-> 0]

allow(major, minor, slice) ==
    [op |-> 3, r0 |-> major, r1 |-> minor, r2 |-> slice.ptr, r3 |-> slice.len, by |-> 0]

\* allow16 passing the element count as the length.
allow16Elements(major, minor, slice) ==
    [op |-> 3, r0 |-> major, r1 |-> minor, r2 |-> slice.ptr, r3 |-> slice.len, by |-> 0]

allow16(major, minor, slice) ==
    [op |-> 3, r0 |-> major, r1 |-> minor, r2 |-> slice.ptr,
     r3 |-> (slice.len * 2) % WordMod, by |-> 0]

subscribe(major, minor, cb, ud) ==
    [op |-> 1, r0 |-> major, r1 |-> minor, r2 |-> cb, r3 |-> ud, by |-> 0]

\* An unsubscribe with the driver and subscribe numbers exchanged.
unsubscribeSwapped(major, minor) == subscribe(minor, major, "noop_callback", 0)

unsubscribe(major, minor) == subscribe(major, minor, "noop_callback", 0)

\* command with its last two arguments in each other's register.
commandSwapped(major, minor, arg1, arg2) ==
    [op |-> 2, r0 |-> major, r1 |-> minor, r2 |-> arg2, r3 |-> arg1, by |-> 0]

command(major, minor, arg1, arg2) ==
    [op |-> 2, r0 |-> major, r1 |-> minor, r2 |-> arg1, r3 |-> arg2, by |-> 0]

memop(major, arg1) ==
    [op |-> 4, r0 |-> major, r1 |-> arg1, r2 |-> 0, r3 |-> 0, by |-> 0]

\* The register read as an unsigned word (res: usize).
GatewayReturnUnsigned(r0out) == r0out

\* What a gateway function returns: res, read from r0 after the trap.
GatewayReturn(r0out) == AsIsize(r0out)

(* ----------------------- the kernel's side of a trap -------------------- *)
\* The signed results the kernel can give a trap.
KernelResults(req) ==
    CASE req.op = 0 -> {0}
      [] req.op = 1 -> IF <<req.r0, req.r1>> \in ValidDescs THEN {0} ELSE NegResults
      [] OTHER -> Results

\* The registration table after the kernel has served a trap: a subscribe on
\* a known descriptor replaces that descriptor's registration.
KernelServe(r, req) ==
    IF req.op = 1 /\ <<req.r0, req.r1>> \in ValidDescs
    THEN [r EXCEPT ![<<req.r0, req.r1>>] = [cb |-> req.r2, ud |-> req.r3, owner |-> req.by]]
    ELSE r

RECURSIVE KernelRun(_, _)
KernelRun(r, reqs) ==
    IF reqs = <<>> THEN r ELSE KernelRun(KernelServe(r, Head(reqs)), Tail(reqs))

\* The process issues the traps reqs in order; the kernel answers outs: of
\* each trap, res is the signed result the kernel produced (ghost) and out
\* the bits it left in r0.
IssueTraps(reqs, outs) ==
    /\ traps' = [i \in 1..Len(reqs) |->
                    [op |-> reqs[i].op, r0 |-> reqs[i].r0, r1 |-> reqs[i].r1,
                     r2 |-> reqs[i].r2, r3 |-> reqs[i].r3, by |-> reqs[i].by,
                     res |-> outs[i], out |-> ToWord(outs[i])]]
    /\ reg' = KernelRun(reg, reqs)

\* The result sequences the kernel can answer reqs with.
Answers(reqs) ==
    {outs \in [1..Len(reqs) -> Results \cup NegResults] :
        \A i \in 1..Len(reqs) : outs[i] \in KernelResults(reqs[i])}

\* No value: nothing pending, cached or observed.
None == -1

\* The buffer before the program has touched it.  cell is what memory holds
\* and sc what it holds if every access happens in program order; pend is a
\* store the compiler has not emitted yet, cached a value it keeps in a
\* register; shared is the descriptor the kernel holds the buffer for; kseen
\* and rseen are what the kernel and the program last read, kwant and rwant
\* what memory held in program order at those reads.
NoMem == [cell |-> 0, sc |-> 0, pend |-> None, cached |-> None, shared |-> <<>>,
          kseen |-> None, kwant |-> None, rseen |-> None, rwant |-> None]

NoHandle == [st |-> "none", ty |-> "-", addr |-> 0]

Init ==
    /\ reg = [d \in ValidDescs |-> NoReg]
    /\ pending = {}
    /\ handles = [h \in Handles |-> NoHandle]
    /\ stack = <<>>
    /\ flag = FALSE
    /\ yf = [pc |-> "idle", exit |-> FALSE, nFalse |-> 0, nTrue |-> 0, nYield |-> 0]
    /\ traps = <<>>
    /\ lastCall = [fn |-> "none", ret |-> 0]
    /\ callArgs = <<>>
    /\ cpu = [fn |-> "none", reg |-> "-", held |-> 0, saved |-> FALSE, after |-> 0, seen |-> 0]
    /\ mem = NoMem
    /\ ps = [pc |-> "start", examples |-> <<>>, out |-> <<>>]

(* ------------------------- the process's position ----------------------- *)
Top == stack[Len(stack)]

Pop == SubSeq(stack, 1, Len(stack) - 1)

\* An open yield trap, entered by `by`.
\* An open yield trap; ran: the kernel has run a callback in it, so that the
\* process stops yielding.
YieldFrame(by) ==
    [k |-> "yield", by |-> by, ty |-> "-", own |-> 0, raw |-> <<>>, ref |-> 0,
     tgt |-> 0, conv |-> <<>>, ran |-> FALSE]

\* A running trampoline: the raw invocation the kernel made (arg0, arg1, arg2,
\* user-data), the registration's owner (ghost), and the A::convert call the
\* trampoline made: the reference it passed, the Handler that reference
\* reaches (tgt) and the three argument words.
CallbackFrame(own, raw, call, tgt) ==
    [k |-> "cb", by |-> "kernel", ty |-> call.ty, own |-> own, raw |-> raw,
     ref |-> call.ref, tgt |-> tgt, conv |-> call.conv, ran |-> FALSE]

\* The process runs ordinary top-level code: it is in no trap, in no
\* trampoline, in no yield loop, and no handle is half-way through its drop.
Idle ==
    /\ stack = <<>>
    /\ yf.pc \in {"idle", "done"}
    /\ \A h \in Handles : handles[h].st # "dropping"

\* Addresses that hold the Handler of a handle whose storage is not released.
LiveAddrs == {handles[h].addr : h \in {x \in Handles : handles[x].st \in {"alive", "dropping"}}}

OpenYields == Cardinality({i \in 1..Len(stack) : stack[i].k = "yield"})

\* A construction that subscribes on one fixed descriptor, whatever the type.
SubscribeNewTrapsFixed(ty, local, h) == <<[subscribe(0, 1, ty, local) EXCEPT !.by = h]>>

(* --------------------------- Subscription handle ------------------------ *)
\* subscribe_new: the one subscribe trap, with the typed trampoline
\* c_callback::<A, CB> (named by its CB) and, as user-data, the address of
\* the function's own parameter `callback` (local).
SubscribeNewTraps(ty, local, h) ==
    <<[subscribe(driver_number(ty), subscribe_number(ty), ty, local) EXCEPT !.by = h]>>

\* A construction that gives up when the kernel refuses the subscribe.
SubscribeNewFallible(outs) == outs[1] >= 0

\* Whether subscribe_new hands a Subscription back, given the kernel's answers.
SubscribeNewReturns(outs) == TRUE

\* subscribe_new(callback): `callback` lives at `local` in subscribe_new's own
\* frame when the trap is issued; the returned Subscription holds it at `home`,
\* the caller's place for the result.  The two coincide only where the build
\* elides the move.
SubscribeNew(ty, local, home) ==
    /\ Idle
    /\ home = local \/ \A a \in Addrs \ LiveAddrs : a = local \/ home <= a
    /\ \E h \in Handles :
        /\ handles[h].st = "none"
        /\ \A g \in Handles : g < h => handles[g].st # "none"
        /\ LET reqs == SubscribeNewTraps(ty, local, h) IN
           \E outs \in Answers(reqs) :
              /\ IssueTraps(reqs, outs)
              /\ IF SubscribeNewReturns(outs)
                 THEN /\ handles' = [handles EXCEPT ![h] = [st |-> "alive", ty |-> ty, addr |-> home]]
                      /\ lastCall' = [fn |-> "subscribe_new", ret |-> h]
                 ELSE /\ handles' = handles
                      /\ lastCall' = [fn |-> "subscribe_new", ret |-> 0]
    /\ UNCHANGED <<pending, stack, flag, yf, callArgs, cpu, mem, ps>>

\* The application moves a live Subscription (returns it, stores it, passes it on).
MoveHandle(h, to) ==
    /\ Idle
    /\ handles[h].st = "alive"
    /\ handles[h].addr # to
    /\ handles' = [handles EXCEPT ![h].addr = to]
    /\ UNCHANGED <<reg, pending, stack, flag, yf, traps, lastCall, callArgs, cpu, mem, ps>>

\* A drop that leaves the registration in place.
DropNoTraps(ty, h) == <<>>

\* Drop::drop of Subscription: the traps it issues.
DropTraps(ty, h) ==
    <<[unsubscribe(driver_number(ty), subscribe_number(ty)) EXCEPT !.by = h]>>

\* A Subscription goes out of scope: Drop::drop runs first.
DropBegin(h) ==
    /\ Idle
    /\ handles[h].st = "alive"
    /\ LET reqs == DropTraps(handles[h].ty, h) IN
       \E outs \in Answers(reqs) : IssueTraps(reqs, outs)
    /\ handles' = [handles EXCEPT ![h].st = "dropping"]
    /\ lastCall' = [fn |-> "drop", ret |-> h]
    /\ UNCHANGED <<pending, stack, flag, yf, callArgs, cpu, mem, ps>>

\* After Drop::drop has returned, the fields are dropped: the Handler's
\* storage is released.
DropRelease(h) ==
    /\ handles[h].st = "dropping"
    /\ handles' = [handles EXCEPT ![h] = [st |-> "released", ty |-> "-", addr |-> 0]]
    /\ UNCHANGED <<reg, pending, stack, flag, yf, traps, lastCall, callArgs, cpu, mem, ps>>

(* ------------------------------- yield ---------------------------------- *)
\* The process enters a yield trap.
EnterYield(by) ==
    /\ OpenYields < MaxDepth
    /\ IssueTraps(<<yieldk>>, <<0>>)
    /\ stack' = Append(stack, YieldFrame(by))

\* Top-level code calls yieldk().
YieldCall ==
    /\ Idle
    /\ EnterYield("user")
    /\ lastCall' = [fn |-> "yieldk", ret |-> 0]
    /\ UNCHANGED <<pending, handles, flag, yf, callArgs, cpu, mem, ps>>

\* The kernel resumes the process after the svc 0, which it does once it has
\* run a callback: yieldk() returns.
YieldReturn ==
    /\ stack # <<>>
    /\ Top.k = "yield"
    /\ Top.ran
    /\ stack' = Pop
    /\ yf' = IF Top.by = "yieldk_for"
             THEN [yf EXCEPT !.pc = IF yf.exit THEN "done" ELSE "eval"]
             ELSE yf
    /\ UNCHANGED <<reg, pending, handles, flag, traps, lastCall, callArgs, cpu, mem, ps>>

(* --------------------------- callback dispatch -------------------------- *)
\* The kernel has a callback to run for descriptor d (an event of its driver).
KernelEvent(d) ==
    /\ reg[d].cb # "null"
    /\ d \notin pending
    /\ pending' = pending \cup {d}
    /\ UNCHANGED <<reg, handles, stack, flag, yf, traps, lastCall, callArgs, cpu, mem, ps>>

\* A kernel that runs callbacks whenever one is queued.
CanDeliverAnytime == TRUE

\* A kernel that runs callbacks whenever the process is in a trap or a trampoline.
CanDeliverPreempting == stack # <<>>

\* The kernel runs a queued callback only in place of the return from a yield
\* trap (the comment of yieldk: "A process stops yielding when there is a
\* callback ready to run").
CanDeliver == stack # <<>> /\ Top.k = "yield"

\* A trampoline that passes on arg1, arg2 and the user-data word.
c_callbackShifted(ty, arg0, arg1, arg2, userdata) ==
    [ty |-> ty, ref |-> userdata, conv |-> <<arg1, arg2, userdata>>]

\* The typed trampoline c_callback::<A, CB>: it turns userdata back into a
\* &mut CB and calls A::convert(arg0, arg1, arg2, callback).
c_callback(ty, arg0, arg1, arg2, userdata) ==
    [ty |-> ty, ref |-> userdata, conv |-> <<arg0, arg1, arg2>>]

\* The handle whose Handler of type ty is stored at address ref; 0 when the
\* address holds no such Handler (the reference dangles).
Target(ref, ty) ==
    LET at == {h \in Handles : /\ handles[h].st \in {"alive", "dropping"}
                               /\ handles[h].addr = ref
                               /\ handles[h].ty = ty}
    IN IF at = {} THEN 0 ELSE CHOOSE h \in at : TRUE

\* The kernel takes a queued callback of descriptor d and calls what is
\* registered for d now with (arg0, arg1, arg2, user-data).  The no-op
\* callback returns at once; a typed trampoline starts a Handler invocation.
\* A Handler invoked through a dangling reference reads and writes storage
\* that is not its own: what it does to the flag is any outcome.
Deliver(d, args) ==
    /\ CanDeliver
    /\ d \in pending
    /\ LET r == reg[d]
           raw == <<args[1], args[2], args[3], r.ud>>
       IN /\ pending' = pending \ {d}
          /\ IF r.cb \in CBTypes
             THEN LET call == c_callback(r.cb, raw[1], raw[2], raw[3], raw[4])
                      tgt == Target(call.ref, call.ty)
                  IN /\ stack' = Append([stack EXCEPT ![Len(stack)].ran = TRUE],
                                        CallbackFrame(r.owner, raw, call, tgt))
                     /\ IF tgt # 0
                        THEN flag' = (flag \/ call.ty \in SetterTypes)
                        ELSE flag' \in BOOLEAN
             ELSE /\ stack' = [stack EXCEPT ![Len(stack)].ran = TRUE]
                  /\ UNCHANGED flag
    /\ UNCHANGED <<reg, handles, yf, traps, lastCall, callArgs, cpu, mem, ps>>

\* A running Handler calls yieldk() itself.
HandlerYield ==
    /\ stack # <<>>
    /\ Top.k = "cb"
    /\ Top.ty \in YieldingTypes
    /\ EnterYield("handler")
    /\ lastCall' = [fn |-> "yieldk", ret |-> 0]
    /\ UNCHANGED <<pending, handles, flag, yf, callArgs, cpu, mem, ps>>

\* A::convert and the trampoline return; the kernel resumes what it interrupted.
HandlerReturn ==
    /\ stack # <<>>
    /\ Top.k = "cb"
    /\ stack' = Pop
    /\ UNCHANGED <<reg, pending, handles, flag, yf, traps, lastCall, callArgs, cpu, mem, ps>>

(* ------------------------------ yield loop ------------------------------ *)
\* A loop that yields before it looks at the result of cond().
YieldForTrapsAlways(c) == <<yieldk>>

\* yieldk_for: the traps one pass of `while !cond() { yieldk(); }` issues
\* after cond() has evaluated to c.
YieldForTraps(c) == IF c THEN <<>> ELSE <<yieldk>>

\* A yield loop without a way out.
YieldForNeverExits(c) == FALSE

\* yieldk_for: whether the loop ends after cond() has evaluated to c.
YieldForExits(c) == c

\* Top-level code calls yieldk_for(cond); cond reads the flag, which the
\* caller has left set or clear.
YieldForCall(b) ==
    /\ Idle
    /\ flag' = b
    /\ yf' = [pc |-> "eval", exit |-> FALSE, nFalse |-> 0, nTrue |-> 0, nYield |-> 0]
    /\ traps' = <<>>
    /\ lastCall' = [fn |-> "yieldk_for", ret |-> 0]
    /\ UNCHANGED <<reg, pending, handles, stack, callArgs, cpu, mem, ps>>

\* The counters of the loop stop counting at MaxIter; the loop goes on.
UpTo(n) == IF n > MaxIter THEN MaxIter ELSE n

\* One evaluation of cond() and what follows it.
YieldForStep ==
    /\ yf.pc = "eval"
    /\ stack = <<>>
    /\ LET c == flag
           reqs == YieldForTraps(c)
           counted == [yf EXCEPT !.nTrue = IF c THEN UpTo(@ + 1) ELSE @,
                                 !.nFalse = IF c THEN @ ELSE UpTo(@ + 1),
                                 !.nYield = UpTo(@ + Len(reqs)),
                                 !.exit = YieldForExits(c)]
       IN /\ IF reqs = <<>>
             THEN /\ yf' = [counted EXCEPT !.pc = IF counted.exit THEN "done" ELSE "eval"]
                  /\ UNCHANGED <<reg, stack, traps>>
             ELSE /\ EnterYield("yieldk_for")
                  /\ yf' = [counted EXCEPT !.pc = "wait"]
    /\ UNCHANGED <<pending, handles, flag, lastCall, callArgs, cpu, mem, ps>>

(* ------------------- direct calls of the trap gateway ------------------- *)
\* Driver and operation numbers, argument words and buffers the application
\* passes.  A slice is its start address and its number of elements; a slice's
\* size in bytes never exceeds isize::MAX.
Majors == 0..1
Minors == 0..1
Words == {0, WordMod - 1}
BufAddrs == {2, WordMod - 2}
Slices8 == [ptr : BufAddrs, len : {0, 1, MaxIsize}]
Slices16 == [ptr : BufAddrs, len : {0, 1, MaxIsize \div 2}]

\* Top-level code calls the gateway function fn with args; fn issues reqs and
\* returns what it read from r0 after its trap.
GatewayCall(fn, args, reqs) ==
    /\ Idle
    /\ \E outs \in Answers(reqs) :
          /\ IssueTraps(reqs, outs)
          /\ lastCall' = [fn |-> fn, ret |-> GatewayReturn(ToWord(outs[Len(outs)]))]
    /\ callArgs' = args
    /\ UNCHANGED <<pending, handles, stack, flag, yf, cpu, mem, ps>>

CallAllow(major, minor, slice) ==
    GatewayCall("allow", <<major, minor, slice>>, <<allow(major, minor, slice)>>)

CallAllow16(major, minor, slice) ==
    GatewayCall("allow16", <<major, minor, slice>>, <<allow16(major, minor, slice)>>)

CallSubscribe(major, minor, cb, ud) ==
    GatewayCall("subscribe", <<major, minor, cb, ud>>, <<subscribe(major, minor, cb, ud)>>)

CallUnsubscribe(major, minor) ==
    GatewayCall("unsubscribe", <<major, minor>>, <<unsubscribe(major, minor)>>)

CallCommand(major, minor, arg1, arg2) ==
    GatewayCall("command", <<major, minor, arg1, arg2>>, <<command(major, minor, arg1, arg2)>>)

CallMemop(major, arg1) == GatewayCall("memop", <<major, arg1>>, <<memop(major, arg1)>>)

(* ---------------------------- specifications ---------------------------- *)
\* Subscription handles, yield and callback dispatch.
Next ==
    \/ \E ty \in CBTypes, local \in Addrs \ LiveAddrs, home \in Addrs \ LiveAddrs :
          SubscribeNew(ty, local, home)
    \/ \E h \in Handles, to \in Addrs \ LiveAddrs : MoveHandle(h, to)
    \/ \E h \in Handles : DropBegin(h)
    \/ \E h \in Handles : DropRelease(h)
    \/ YieldCall
    \/ YieldReturn
    \/ \E d \in ValidDescs : KernelEvent(d)
    \/ \E d \in ValidDescs, args \in RawArgs : Deliver(d, args)
    \/ HandlerYield
    \/ HandlerReturn

Spec == Init /\ [][Next]_vars

\* The yield loop, with the subscriptions and deliveries that end it.
NextYieldFor ==
    \/ \E ty \in CBTypes, local \in Addrs \ LiveAddrs, home \in Addrs \ LiveAddrs :
          SubscribeNew(ty, local, home)
    \/ \E d \in ValidDescs : KernelEvent(d)
    \/ \E d \in ValidDescs, args \in RawArgs : Deliver(d, args)
    \/ HandlerYield
    \/ HandlerReturn
    \/ YieldReturn
    \/ \E b \in BOOLEAN : YieldForCall(b)
    \/ YieldForStep

SpecYieldFor == Init /\ [][NextYieldFor]_vars

\* The yield loop where the process runs whenever it can, a Handler that
\* does not yield returns, and the kernel delivers: a yield trap in which a
\* callback has run is not held for ever to run further callbacks, and a
\* callback queued for a descriptor is not passed over for ever.  Events of
\* the drivers are not forced.
SpecYieldForFair ==
    /\ SpecYieldFor
    /\ WF_vars(YieldForStep)
    /\ WF_vars(HandlerReturn)
    /\ SF_vars(YieldReturn)
    /\ \A d \in ValidDescs : SF_vars(\E args \in RawArgs : Deliver(d, args))

\* Direct calls of the gateway functions.
NextGateway ==
    \/ \E major \in Majors, minor \in Minors, slice \in Slices8 :
          CallAllow(major, minor, slice)
    \/ \E major \in Majors, minor \in Minors, slice \in Slices16 :
          CallAllow16(major, minor, slice)
    \/ \E major \in Majors, minor \in Minors, cb \in {"CBa"}, ud \in {1} :
          CallSubscribe(major, minor, cb, ud)
    \/ \E major \in Majors, minor \in Minors : CallUnsubscribe(major, minor)
    \/ \E major \in Majors, minor \in Minors, arg1 \in Words, arg2 \in Words :
          CallCommand(major, minor, arg1, arg2)
    \/ \E major \in Majors, arg1 \in Words : CallMemop(major, arg1)
    \/ YieldCall

SpecGateway == Init /\ [][NextGateway]_vars

(* ------------------- registers held across a gateway call --------------- *)
\* The registers of the claim: r0-r3 carry the arguments, lr the return
\* address, r12 is the caller-saved scratch register.  r4 stands for the
\* registers a subroutine must preserve.
CallerSaved == {"r0", "r1", "r2", "r3", "r12", "lr"}

Registers == CallerSaved \cup {"r4"}

TrapFns == {"yieldk", "allow", "allow16", "subscribe", "unsubscribe", "command", "memop"}

\* The output operands of the function's asm! block.
AsmOutputs(fn) == IF fn = "yieldk" THEN {} ELSE {"r0"}

\* The input operands of the function's asm! block.
AsmInputs(fn) ==
    CASE fn = "yieldk" -> {}
      [] fn = "memop" -> {"r0", "r1"}
      [] OTHER -> {"r0", "r1", "r2", "r3"}

\* yieldk without lr in its clobber list.
AsmClobbersNoLr(fn) ==
    IF fn = "yieldk" THEN {"memory", "r0", "r1", "r2", "r3", "r12"} ELSE {"memory"}

\* The clobber list of the function's asm! block.
AsmClobbers(fn) ==
    IF fn = "yieldk" THEN {"memory", "r0", "r1", "r2", "r3", "r12", "lr"} ELSE {"memory"}

\* The registers the compiler takes the asm! block to overwrite: a value the
\* caller needs afterwards is kept elsewhere and restored only for these.
Destroyed(fn) == (AsmOutputs(fn) \cup AsmClobbers(fn)) \ {"memory"}

\* What register x holds when the trap of fn returns, where it held v before
\* and w is what the kernel or a callback left behind.  A yield returns after
\* a callback ran: lr was overwritten by the kernel and the callback was free
\* to overwrite every caller-saved register.  Another trap returns through
\* the frame the hardware pushed, with the result in r0.
RegAfterTrap(fn, x, v, w) ==
    IF fn = "yieldk"
    THEN IF x \in CallerSaved THEN w ELSE v
    ELSE IF x = "r0" THEN w ELSE v

\* Top-level code holds v in register x and calls the (inlined) gateway
\* function fn; afterwards it uses the value again.
HoldAcross(fn, x, v, w) ==
    /\ Idle
    /\ cpu' = [fn |-> fn, reg |-> x, held |-> v,
               saved |-> x \in Destroyed(fn),
               after |-> RegAfterTrap(fn, x, v, w),
               seen |-> IF x \in Destroyed(fn) THEN v ELSE RegAfterTrap(fn, x, v, w)]
    /\ UNCHANGED <<reg, pending, handles, stack, flag, yf, traps, lastCall, callArgs, mem, ps>>

RegValues == {0, 1, WordMod - 1}

NextRegisters ==
    \E fn \in TrapFns, x \in Registers, v \in RegValues, w \in RegValues :
        HoldAcross(fn, x, v, w)

SpecRegisters == Init /\ [][NextRegisters]_vars

(* ------------------- buffers shared with the kernel --------------------- *)
\* An asm! block without "memory" among its clobbers.
MemoryNotClobbered(fn) == FALSE

\* The asm! block of fn is volatile and lists "memory" among its clobbers.
MemoryClobbered(fn) == "memory" \in AsmClobbers(fn)

BufValues == {0, 1}

\* The one buffer the program shares.
TheSlice == [ptr |-> 2, len |-> 1]

\* Memory once the compiler has emitted the store it held back.
Flushed(m) == IF m.pend = None THEN m ELSE [m EXCEPT !.cell = m.pend, !.pend = None]

\* The program stores v into the buffer; the compiler emits the store now or
\* holds it back (defer) until something forces it out.
WriteBuffer(v, defer) ==
    /\ Idle
    /\ mem' = IF defer
              THEN [mem EXCEPT !.sc = v, !.pend = v, !.cached = v]
              ELSE [mem EXCEPT !.sc = v, !.cell = v, !.pend = None, !.cached = v]
    /\ UNCHANGED <<reg, pending, handles, stack, flag, yf, traps, lastCall, callArgs, cpu, ps>>

\* The program loads from the buffer; the compiler may use the value it still
\* has in a register (reuse) instead of loading.
ReadBuffer(reuse) ==
    /\ Idle
    /\ LET v == IF mem.pend # None THEN mem.pend
                ELSE IF reuse /\ mem.cached # None THEN mem.cached
                ELSE mem.cell
       IN mem' = [mem EXCEPT !.rseen = v, !.rwant = mem.sc, !.cached = v]
    /\ UNCHANGED <<reg, pending, handles, stack, flag, yf, traps, lastCall, callArgs, cpu, ps>>

\* Memory as the trap of fn finds it: a "memory" clobber forces every store
\* out before the svc; without one the compiler may still hold it back (lazy).
AtTrap(fn, m, lazy) == IF MemoryClobbered(fn) \/ ~lazy THEN Flushed(m) ELSE m

\* Memory as the program finds it after the trap of fn: a "memory" clobber
\* makes the compiler forget what it had read before the svc.
AfterTrap(fn, m, lazy) ==
    IF MemoryClobbered(fn) \/ ~lazy THEN [m EXCEPT !.cached = None] ELSE m

\* allow(major, minor, slice) on the buffer: the kernel that accepts it holds
\* the buffer for the descriptor from then on.
AllowBuffer(major, minor, lazy) ==
    /\ Idle
    /\ \E outs \in Answers(<<allow(major, minor, TheSlice)>>) :
          /\ IssueTraps(<<allow(major, minor, TheSlice)>>, outs)
          /\ lastCall' = [fn |-> "allow", ret |-> GatewayReturn(ToWord(outs[1]))]
          /\ LET m == AtTrap("allow", mem, lazy)
                 k == IF outs[1] >= 0 THEN [m EXCEPT !.shared = <<major, minor>>] ELSE m
             IN mem' = AfterTrap("allow", k, lazy)
    /\ callArgs' = <<major, minor, TheSlice>>
    /\ UNCHANGED <<pending, handles, stack, flag, yf, cpu, ps>>

\* command(major, minor, arg1, arg2): the driver of a descriptor that holds
\* the buffer reads it, and may write kw into it (None: it does not).
CommandBuffer(major, minor, kw, lazy) ==
    /\ Idle
    /\ \E outs \in Answers(<<command(major, minor, 0, 0)>>) :
          /\ IssueTraps(<<command(major, minor, 0, 0)>>, outs)
          /\ lastCall' = [fn |-> "command", ret |-> GatewayReturn(ToWord(outs[1]))]
    /\ LET m == AtTrap("command", mem, lazy)
           k == IF m.shared # <<major, minor>> THEN m
                ELSE IF kw = None THEN [m EXCEPT !.kseen = m.cell, !.kwant = m.sc]
                ELSE [m EXCEPT !.kseen = m.cell, !.kwant = m.sc, !.cell = kw, !.sc = kw]
       IN mem' = AfterTrap("command", k, lazy)
    /\ callArgs' = <<major, minor, 0, 0>>
    /\ UNCHANGED <<pending, handles, stack, flag, yf, cpu, ps>>

NextBuffer ==
    \/ \E v \in BufValues, defer \in BOOLEAN : WriteBuffer(v, defer)
    \/ \E reuse \in BOOLEAN : ReadBuffer(reuse)
    \/ \E major \in {0}, minor \in Minors, lazy \in BOOLEAN : AllowBuffer(major, minor, lazy)
    \/ \E major \in {0}, minor \in Minors, kw \in BufValues \cup {None}, lazy \in BOOLEAN :
          CommandBuffer(major, minor, kw, lazy)

SpecBuffer == Init /\ [][NextBuffer]_vars

(* --------------------- the size report (print-sizes) -------------------- *)
\* Architectures that the examples are expected to be built for.
ARCHITECTURES == <<"riscv32imc-unknown-none-elf", "thumbv7em-none-eabi">>

\* The place of an architecture's name in byte order ('r' sorts before 't').
ArchRank(arch) == IF arch = "riscv32imc-unknown-none-elf" THEN 1 ELSE 2

\* What an examples directory can hold.  File names are numbers that sort as
\* the names do; plain: the name has neither a dot nor a hyphen.
DirEntries ==
    { [name |-> 1, is_file |-> TRUE, plain |-> TRUE],
      [name |-> 2, is_file |-> TRUE, plain |-> TRUE],
      [name |-> 3, is_file |-> TRUE, plain |-> FALSE],
      [name |-> 4, is_file |-> FALSE, plain |-> TRUE] }

\* The listings read_dir() can produce: up to MaxEntries distinct entries in
\* any order (a missing directory counts as an empty one).
Listings ==
    UNION { { s \in [1..n -> DirEntries] : \A i, j \in 1..n : i # j => s[i] # s[j] } :
            n \in 0..MaxEntries }

\* find_examples: the examples of one architecture, in directory order.
RECURSIVE ExamplesIn(_, _)
ExamplesIn(arch, listing) ==
    IF listing = <<>> THEN <<>>
    ELSE LET file == Head(listing)
             rest == ExamplesIn(arch, Tail(listing))
         IN IF ~file.is_file \/ ~file.plain
            THEN rest
            ELSE <<[name |-> file.name, arch |-> arch, path |-> <<arch, file.name>>]>> \o rest

\* An order that looks at the architecture first.
ExampleLessByArch(a, b) ==
    \/ ArchRank(a.arch) < ArchRank(b.arch)
    \/ a.arch = b.arch /\ a.name < b.name

\* The derived Ord of Example: by name, then arch, then path
\* (target/$ARCH/release/examples/$NAME).
ExampleLess(a, b) ==
    \/ a.name < b.name
    \/ /\ a.name = b.name
       /\ \/ ArchRank(a.arch) < ArchRank(b.arch)
          \/ /\ a.arch = b.arch
             /\ \/ ArchRank(a.path[1]) < ArchRank(b.path[1])
                \/ a.path[1] = b.path[1] /\ a.path[2] < b.path[2]

RECURSIVE InsertSorted(_, _)
InsertSorted(x, s) ==
    IF s = <<>> THEN <<x>>
    ELSE IF ExampleLess(x, Head(s)) THEN <<x>> \o s
    ELSE <<Head(s)>> \o InsertSorted(x, Tail(s))

\* examples.sort_unstable()
RECURSIVE SortUnstable(_)
SortUnstable(s) == IF s = <<>> THEN <<>> ELSE InsertSorted(Head(s), SortUnstable(Tail(s)))

\* Section sizes are u64 in ElfSizes (AccBits wide here); the sections of the
\* 32-bit targets are far smaller (at most MaxSize here).
AccMod == 2 ^ AccBits

NoSizes == [bss |-> 0, data |-> 0, rodata |-> 0, text |-> 0]

\* What get_sizes can read from a binary.
SizeChoices ==
    { NoSizes,
      [bss |-> 1, data |-> 2, rodata |-> 3, text |-> 4],
      [bss |-> MaxSize, data |-> MaxSize, rodata |-> 0, text |-> MaxSize] }

\* Add for &ElfSizes
Add(self, rhs) ==
    [bss |-> (self.bss + rhs.bss) % AccMod,
     data |-> (self.data + rhs.data) % AccMod,
     rodata |-> (self.rodata + rhs.rodata) % AccMod,
     text |-> (self.text + rhs.text) % AccMod]

\* The totals loop of main over the examples of one architecture.
RECURSIVE TotalsOf(_, _, _)
TotalsOf(arch, data, totals) ==
    IF data = <<>> THEN totals
    ELSE TotalsOf(arch, Tail(data),
                  IF Head(data).arch = arch THEN Add(totals, Head(data).sizes) ELSE totals)

HeaderRow ==
    [kind |-> "header", name |-> "Example", arch |-> "Architecture",
     bss |-> ".bss", data |-> ".data", text |-> ".text"]

ExampleRow(d) ==
    [kind |-> "example", name |-> d.name, arch |-> d.arch,
     bss |-> d.sizes.bss, data |-> d.sizes.data, text |-> d.sizes.text]

TotalRow(arch, totals) ==
    [kind |-> "total", name |-> "Total", arch |-> arch,
     bss |-> totals.bss, data |-> totals.data, text |-> totals.text]

\* find_examples(): the listings of the two examples directories.
FindExamples(listings) ==
    /\ ps.pc = "start"
    /\ ps' = [ps EXCEPT !.pc = "found",
                        !.examples = ExamplesIn(ARCHITECTURES[1], listings[1])
                                     \o ExamplesIn(ARCHITECTURES[2], listings[2])]
    /\ UNCHANGED <<reg, pending, handles, stack, flag, yf, traps, lastCall, callArgs, cpu, mem>>

\* The rest of main: sort, read the sizes (sizes[i] of the i-th sorted
\* example), print the header, a row per example and a Total row per
\* architecture; with no example it panics before it prints anything.
Report(sizes) ==
    /\ ps.pc = "found"
    /\ LET examples == SortUnstable(ps.examples)
           example_data == [i \in 1..Len(examples) |->
                               [name |-> examples[i].name, arch |-> examples[i].arch,
                                sizes |-> sizes[i]]]
       IN IF example_data = <<>>
          THEN ps' = [ps EXCEPT !.pc = "panicked"]
          ELSE ps' = [ps EXCEPT
                        !.pc = "done",
                        !.out = <<HeaderRow>>
                                \o [i \in 1..Len(example_data) |-> ExampleRow(example_data[i])]
                                \o [a \in 1..Len(ARCHITECTURES) |->
                                       TotalRow(ARCHITECTURES[a],
                                                TotalsOf(ARCHITECTURES[a], example_data, NoSizes))]]
    /\ UNCHANGED <<reg, pending, handles, stack, flag, yf, traps, lastCall, callArgs, cpu, mem>>

NextSizes ==
    \/ \E listings \in Listings \X Listings : FindExamples(listings)
    \/ \E sizes \in [1..Len(ps.examples) -> SizeChoices] : Report(sizes)

SpecSizes == Init /\ [][NextSizes]_vars

(* ------------------------------- claims --------------------------------- *)
CallbackFrames == {i \in 1..Len(stack) : stack[i].k = "cb"}

UnsubscribeTrapOf(ty) ==
    [op |-> 1, r0 |-> driver_number(ty), r1 |-> subscribe_number(ty),
     r2 |-> "noop_callback", r3 |-> 0]

IsUnsubscribeOf(t, ty) ==
    [op |-> t.op, r0 |-> t.r0, r1 |-> t.r1, r2 |-> t.r2, r3 |-> t.r3] = UnsubscribeTrapOf(ty)

\* The kernel's registration for h's descriptor names h's typed trampoline
\* with the user-data h registered or with the address of h's Handler.
RegistrationNames(h) ==
    /\ DescOf(handles[h].ty) \in ValidDescs
    /\ reg[DescOf(handles[h].ty)].cb = handles[h].ty
    /\ \/ reg[DescOf(handles[h].ty)].owner = h
       \/ reg[DescOf(handles[h].ty)].ud = handles[h].addr

\* C1: at every step that releases the storage of a handle's Handler,
\* Drop::drop has already issued the one unsubscribe trap for the handle's
\* descriptor, and the kernel's registration for that descriptor does not
\* name the handle's typed trampoline and Handler address.
C1_UnsubscribeBeforeRelease ==
    [][\A h \in Handles :
          (handles[h].st # "released" /\ handles'[h].st = "released")
          => /\ lastCall = [fn |-> "drop", ret |-> h]
             /\ Len(traps) = 1
             /\ IsUnsubscribeOf(traps[1], handles[h].ty)
             /\ ~RegistrationNames(h)]_vars

\* A Handler's storage has been released after an unsubscribe the kernel accepted.
C1_Witness ==
    \E h \in Handles :
        /\ handles[h].st = "released"
        /\ lastCall = [fn |-> "drop", ret |-> h]
        /\ Len(traps) = 1
        /\ traps[1].res = 0

\* C2: while a handle is alive and holds its descriptor's registration, the
\* user-data word the kernel holds for the descriptor is the address of the
\* Handler stored in the handle.
C2_UserDataIsHandlerAddress ==
    \A h \in Handles :
        (/\ handles[h].st = "alive"
         /\ DescOf(handles[h].ty) \in ValidDescs
         /\ reg[DescOf(handles[h].ty)].owner = h)
        => /\ reg[DescOf(handles[h].ty)].cb = handles[h].ty
           /\ reg[DescOf(handles[h].ty)].ud = handles[h].addr

\* C3: the drop of a handle issues exactly one trap, the subscribe (svc 1) of
\* the no-op callback with user-data 0 for the handle's descriptor, and no
\* trampoline runs through the registration of a handle that is no longer
\* alive, nor against its Handler.
C3_DropUnsubscribesOnce ==
    /\ \A h \in Handles :
          handles[h].st = "dropping"
          => /\ lastCall = [fn |-> "drop", ret |-> h]
             /\ Len(traps) = 1
             /\ IsUnsubscribeOf(traps[1], handles[h].ty)
    /\ lastCall.fn = "drop" => Len(traps) = 1 /\ traps[1].by = lastCall.ret
    /\ \A i \in CallbackFrames :
          /\ stack[i].own # 0 => handles[stack[i].own].st = "alive"
          /\ stack[i].tgt # 0 => handles[stack[i].tgt].st = "alive"

\* A handle is destroyed and the kernel is about to deliver a callback on its
\* descriptor to the process, which sits in a yield trap.
C3_Witness ==
    \E h \in Handles, d \in pending :
        /\ handles[h].st = "released"
        /\ reg[d] = [cb |-> "noop_callback", ud |-> 0, owner |-> h]
        /\ CanDeliver

\* C4: when a handle h1 is dropped while another live handle h2 holds the
\* registration of the same descriptor, the registration still names h2's
\* trampoline and registration afterwards.
C4_DropKeepsLaterRegistration ==
    [][\A h1 \in Handles, h2 \in Handles :
          (/\ h1 # h2
           /\ handles[h1].st = "alive" /\ handles'[h1].st = "dropping"
           /\ handles[h2].st = "alive"
           /\ DescOf(handles[h1].ty) = DescOf(handles[h2].ty)
           /\ DescOf(handles[h2].ty) \in ValidDescs
           /\ reg[DescOf(handles[h2].ty)].owner = h2)
          => /\ reg'[DescOf(handles[h2].ty)].owner = h2
             /\ reg'[DescOf(handles[h2].ty)].cb = handles[h2].ty]_vars

\* C5: every delivery through the registration of a live handle is one
\* A::convert call against that handle's Handler with the delivery's three
\* argument words.
C5_DeliveriesReachHandler ==
    \A i \in CallbackFrames :
        (stack[i].own # 0 /\ handles[stack[i].own].st = "alive")
        => /\ stack[i].tgt = stack[i].own
           /\ stack[i].conv = SubSeq(stack[i].raw, 1, 3)

\* C6: during a yieldk_for call the yield traps issued equal the false
\* evaluations of cond(); no evaluation follows a true one, and the call has
\* returned exactly when cond() has evaluated true (with zero traps when that
\* was the first evaluation).
C6_YieldForCounts ==
    yf.pc # "idle"
    => /\ yf.nYield = yf.nFalse
       /\ \/ yf.nTrue = 0 /\ yf.pc \in {"eval", "wait"}
          \/ yf.nTrue = 1 /\ yf.pc = "done"

\* yieldk_for has returned after MaxIter false evaluations of cond().
C6_Witness == yf.pc = "done" /\ yf.nFalse = MaxIter /\ yf.nYield = MaxIter

C8_Original == Cardinality(CallbackFrames) <= 1

\* C8 amended: a Handler invocation begins while another is in progress only
\* inside a yield trap that the running Handler has itself entered.
C8_NestedOnlyByHandlerYield ==
    \A i \in CallbackFrames :
        i < Len(stack) => stack[i + 1].k = "yield" /\ stack[i + 1].by = "handler"

\* Two Handler invocations are in progress: the second was dispatched inside
\* a yield trap that the first Handler entered.
C8_Witness == Cardinality(CallbackFrames) = 2

\* C9: subscribe_new issues exactly one trap, the subscribe of the typed
\* trampoline for the Handler type's descriptor, and returns a live handle
\* whatever result the kernel gave.
C9_SubscribeNewOneTrap ==
    lastCall.fn = "subscribe_new"
    => /\ Len(traps) = 1
       /\ traps[1].op = 1
       /\ lastCall.ret \in Handles
       /\ handles[lastCall.ret].st = "alive"
       /\ traps[1].r2 = handles[lastCall.ret].ty
       /\ <<traps[1].r0, traps[1].r1>> = DescOf(handles[lastCall.ret].ty)

\* subscribe_new has returned a handle although the kernel refused the subscribe.
C9_Witness ==
    /\ lastCall.fn = "subscribe_new"
    /\ Len(traps) = 1
    /\ traps[1].res < 0
    /\ lastCall.ret \in Handles
    /\ handles[lastCall.ret].st = "alive"

GatewayFns == {"allow", "allow16", "subscribe", "unsubscribe", "command", "memop"}

\* C10: allow, allow16, subscribe, unsubscribe, command and memop issue
\* exactly one trap and return the signed result the kernel produced.
C10_GatewayReturnsKernelResult ==
    lastCall.fn \in GatewayFns
    => /\ Len(traps) = 1
       /\ lastCall.ret = traps[1].res

\* command has returned the most negative result word.
C10_Witness == lastCall.fn = "command" /\ lastCall.ret = MinIsize /\ Len(traps) = 1

\* The handles alive on descriptor d, and the one created last among them.
AliveOn(d) == {h \in Handles : handles[h].st = "alive" /\ DescOf(handles[h].ty) = d}

LastOn(d) == CHOOSE h \in AliveOn(d) : \A g \in AliveOn(d) : g <= h

\* C11: while two handles are alive on one descriptor, the kernel's
\* registration for it names the trampoline and the Handler address of the
\* handle created last, and every trampoline running on the descriptor runs
\* through that handle's registration against that handle's Handler.
C11_LastWriteWins ==
    \A d \in ValidDescs :
        Cardinality(AliveOn(d)) >= 2
        => /\ reg[d].owner = LastOn(d)
           /\ reg[d].cb = handles[LastOn(d)].ty
           /\ reg[d].ud = handles[LastOn(d)].addr
           /\ \A i \in CallbackFrames :
                 DescOf(stack[i].ty) = d
                 => stack[i].own = LastOn(d) /\ stack[i].tgt = LastOn(d)

C13_OpCodesAndRegisters ==
    lastCall.fn \in GatewayFns \cup {"yieldk"}
    => /\ Len(traps) = 1
       /\ LET t == traps[1]
              a == callArgs
          IN CASE lastCall.fn = "yieldk" -> t.op = 0
               [] lastCall.fn \in {"allow", "allow16"} ->
                     /\ t.op = 3
                     /\ <<t.r0, t.r1, t.r2>> = <<a[1], a[2], a[3].ptr>>
                     /\ lastCall.ret = AsIsize(t.out)
               [] lastCall.fn = "subscribe" ->
                     /\ t.op = 1
                     /\ <<t.r0, t.r1, t.r2, t.r3>> = a
                     /\ lastCall.ret = AsIsize(t.out)
               [] lastCall.fn = "unsubscribe" ->
                     /\ t.op = 1
                     /\ <<t.r0, t.r1>> = a
                     /\ lastCall.ret = AsIsize(t.out)
               [] lastCall.fn = "command" ->
                     /\ t.op = 2
                     /\ <<t.r0, t.r1, t.r2, t.r3>> = a
                     /\ lastCall.ret = AsIsize(t.out)
               [] lastCall.fn = "memop" ->
                     /\ t.op = 4
                     /\ <<t.r0, t.r1>> = a
                     /\ lastCall.ret = AsIsize(t.out)

\* A command whose four arguments tell the registers apart.
C13_Witness ==
    /\ lastCall.fn = "command"
    /\ callArgs = <<1, 0, 0, WordMod - 1>>
    /\ Len(traps) = 1
    /\ traps[1].op = 2
    /\ traps[1].r2 = 0
    /\ traps[1].r3 = WordMod - 1

\* C14: allow passes the buffer's start address and its length in bytes;
\* allow16 passes the start address and twice the number of 16-bit elements,
\* the exact product, for every buffer length.
C14_AllowLengths ==
    (lastCall.fn \in {"allow", "allow16"} /\ Len(traps) = 1)
    => /\ traps[1].r2 = callArgs[3].ptr
       /\ lastCall.fn = "allow" => traps[1].r3 = callArgs[3].len
       /\ lastCall.fn = "allow16" => traps[1].r3 = 2 * callArgs[3].len

\* allow16 of the longest u16 buffer that can exist.
C14_Witness ==
    /\ lastCall.fn = "allow16"
    /\ callArgs[3].len = MaxIsize \div 2
    /\ Len(traps) = 1
    /\ traps[1].r3 = MaxIsize - 1

\* C15: for every raw invocation (arg0, arg1, arg2, user-data) the trampoline
\* calls A::convert with exactly arg0, arg1, arg2 in that order and with the
\* reference the user-data word designates, which is the Handler stored at
\* that address; the user-data word is not among the argument values.
C15_TrampolinePassesArguments ==
    \A i \in CallbackFrames :
        /\ Len(stack[i].raw) = 4
        /\ stack[i].conv = <<stack[i].raw[1], stack[i].raw[2], stack[i].raw[3]>>
        /\ stack[i].ref = stack[i].raw[4]
        /\ \A h \in Handles :
              (/\ handles[h].st \in {"alive", "dropping"}
               /\ handles[h].ty = stack[i].ty
               /\ handles[h].addr = stack[i].raw[4])
              => stack[i].tgt = h

\* A trampoline running on (6, 5, 4, user-data) against the Handler at user-data.
C15_Witness ==
    \E i \in CallbackFrames :
        /\ stack[i].raw[1] = 6
        /\ stack[i].conv = <<6, 5, 4>>
        /\ stack[i].tgt # 0
        /\ handles[stack[i].tgt].addr = stack[i].raw[4]

\* C16: a command on the descriptor a buffer was allowed for makes the kernel
\* read what the program had written to the buffer by then (after an allow
\* followed at once by the command: what it had written before the allow),
\* and a load after a trap returns what memory holds, not a value read or
\* written before the trap.
C16_KernelSeesBuffer ==
    /\ mem.kseen # None => mem.kseen = mem.kwant
    /\ mem.rseen # None => mem.rseen = mem.rwant

\* The kernel read 1 from a shared buffer and the program then loaded what
\* the kernel had written.
C16_Witness ==
    /\ mem.shared = <<0, 1>>
    /\ mem.kseen = 1
    /\ mem.kwant = 1
    /\ mem.rseen = 0
    /\ mem.rwant = 0

\* A yieldk_for call is in progress.
LoopActive == yf.pc \in {"eval", "wait"}

\* The callback registered for d runs a Handler that exists.
RunsHandler(d) == reg[d].cb \in CBTypes /\ Target(reg[d].ud, reg[d].cb) # 0

\* A callback that makes cond true when it runs is queued.
SetterPending == \E d \in pending : RunsHandler(d) /\ reg[d].cb \in SetterTypes

\* No registered callback can make cond true.
NoSetterRegistered ==
    \A d \in ValidDescs :
        reg[d].cb \in CBTypes => RunsHandler(d) /\ reg[d].cb \notin SetterTypes

\* No registered Handler waits in a yield trap of its own.
NoYielderRegistered == \A d \in ValidDescs : reg[d].cb \notin YieldingTypes

\* C17 amended: yieldk_for returns exactly when an evaluation of cond() is
\* true.  Under fair delivery a queued callback that makes cond true ends the
\* loop, provided no registered Handler waits in a yield trap of its own.
\* While no registered callback can make cond true the loop never returns; it
\* issues another yield trap after every false evaluation and stays in that
\* trap until the kernel has run a callback.
C17_YieldForTermination ==
    /\ (yf.pc = "eval" /\ flag) ~> (yf.pc = "done")
    /\ [](yf.pc = "done" => yf.nTrue = 1)
    /\ (LoopActive /\ SetterPending /\ NoYielderRegistered) ~> (yf.pc = "done")
    /\ []((LoopActive /\ ~flag /\ NoSetterRegistered) => [](yf.pc # "done"))
    /\ (yf.pc = "eval" /\ ~flag) ~> (yf.pc = "wait")
    /\ [](yf.pc = "wait" => stack # <<>> /\ stack[1].k = "yield" /\ stack[1].by = "yieldk_for")

\* The loop yielded, a callback made cond true, and the loop has returned.
C17_Witness ==
    /\ yf.pc = "done"
    /\ yf.nFalse = 1
    /\ flag
    /\ \E d \in ValidDescs : RunsHandler(d) /\ reg[d].cb \in SetterTypes

\* C17 as stated: under fair delivery a queued callback that makes cond true
\* ends the loop; while no registered callback can make cond true the loop
\* never returns and issues yield traps for ever.
C17_Original ==
    /\ (LoopActive /\ SetterPending) ~> (yf.pc = "done")
    /\ []((LoopActive /\ ~flag /\ NoSetterRegistered)
          => ([](yf.pc # "done") /\ []<>(yf.pc = "eval")))

\* C18: the step that constructs a handle and the step that starts its
\* destruction each issue one subscribe trap on the (major, minor) pair of
\* the Handler type's driver_number() and subscribe_number(), and leave the
\* kernel's registration of every other descriptor as it was.
C18_OnlyOwnDescriptor ==
    [][\A h \in Handles :
          LET created == handles[h].st = "none" /\ handles'[h].st = "alive"
              dropped == handles[h].st = "alive" /\ handles'[h].st = "dropping"
              ty == IF created THEN handles'[h].ty ELSE handles[h].ty
          IN (created \/ dropped)
             => /\ Len(traps') = 1
                /\ traps'[1].op = 1
                /\ <<traps'[1].r0, traps'[1].r1>> = <<driver_number(ty), subscribe_number(ty)>>
                /\ \A d \in ValidDescs : d # DescOf(ty) => reg'[d] = reg[d]]_vars

\* A second handle was constructed on another descriptor and the first
\* handle's registration is still in place.
C18_Witness ==
    /\ lastCall = [fn |-> "subscribe_new", ret |-> 2]
    /\ reg[<<0, 1>>].owner = 1
    /\ reg[<<0, 1>>].cb = "CBa"
    /\ reg[<<1, 0>>].owner = 2
    /\ reg[<<1, 0>>].cb = "CBb"

\* The rows of the report that list a binary, and its Total rows.
ExampleRows == {i \in 1..Len(ps.out) : ps.out[i].kind = "example"}

TotalRows == {i \in 1..Len(ps.out) : ps.out[i].kind = "total"}

\* The sum of column f over the listed binaries of an architecture.
RECURSIVE SumOfColumn(_, _, _)
SumOfColumn(rows, arch, f) ==
    IF rows = <<>> THEN 0
    ELSE (IF Head(rows).kind = "example" /\ Head(rows).arch = arch THEN Head(rows)[f] ELSE 0)
         + SumOfColumn(Tail(rows), arch, f)

\* The report lists exactly the examples found, in ascending (name,
\* architecture, path) order, and has for each expected architecture one
\* Total row with the sums of the listed .bss, .data and .text values.
ReportAsClaimed ==
    /\ Cardinality(ExampleRows) = Len(ps.examples)
    /\ \A k \in 1..Len(ps.examples) :
          \E i \in ExampleRows : /\ ps.out[i].name = ps.examples[k].name
                                 /\ ps.out[i].arch = ps.examples[k].arch
    /\ \A i, j \in ExampleRows :
          i < j => \/ ps.out[i].name < ps.out[j].name
                   \/ /\ ps.out[i].name = ps.out[j].name
                      /\ ArchRank(ps.out[i].arch) < ArchRank(ps.out[j].arch)
    /\ \A a \in 1..Len(ARCHITECTURES) :
          /\ Cardinality({i \in TotalRows : ps.out[i].arch = ARCHITECTURES[a]}) = 1
          /\ \A i \in TotalRows :
                ps.out[i].arch = ARCHITECTURES[a]
                => /\ ps.out[i].bss = SumOfColumn(ps.out, ARCHITECTURES[a], "bss")
                   /\ ps.out[i].data = SumOfColumn(ps.out, ARCHITECTURES[a], "data")
                   /\ ps.out[i].text = SumOfColumn(ps.out, ARCHITECTURES[a], "text")

====
